---------------------------- MODULE Spec2Model ----------------------------
(***************************************************************************)
(* Bio_impedance_simulation: three versions of one React component.        *)
(*                                                                         *)
(*   manual   src/src/bioimpedancesimulation.jsx  fluid slider, fixed      *)
(*            1..100 kHz chart, manual L-Dex calculator                    *)
(*   range    src/unnamed/part_000  fluid slider, Min/Max frequency        *)
(*            inputs, selected-frequency slider, L-Dex conclusion          *)
(*   dual     src/unnamed/part_001  left/right fluid sliders, Min/Max      *)
(*            frequency inputs, PNG/CSV export, asymmetry conclusion       *)
(*                                                                         *)
(* The useState hooks are the variables; everything a render derives from  *)
(* them (frequencies, impedanceData, lDexIndex, conclusion, ...) is an     *)
(* operator over the variables, as the code recomputes it on every render. *)
(*                                                                         *)
(* Numbers.  Integers here have 32 bits and there are no reals, so:        *)
(*  - a fluid level is held as the slider's decimal string read in         *)
(*    hundredths (the string "0.57" is 57); the slider has min 0, max 1,   *)
(*    step 0.01;                                                           *)
(*  - the L-Dex arithmetic (parseFloat, * 100, / 10, -, Math.abs, <) is    *)
(*    IEEE-754 binary64 with round-to-nearest-even, on 53-bit mantissas    *)
(*    kept as limb sequences (Dbl... operators);                           *)
(*  - the impedance arithmetic is decimal fixed point, every operation     *)
(*    truncated toward zero: resistance in ohm, capacitance in 1e-11 F,    *)
(*    omega in 1e-3 rad/s, omega*R*C and denom in 1e-8, Z in 1e-6 ohm;     *)
(*  - the manual calculator's arithmetic is decimal fixed point in 1e-6.   *)
(***************************************************************************)
EXTENDS Integers, Sequences, FiniteSets, TLC

(***************************************************************************)
(* Fixed-point helpers                                                     *)
(***************************************************************************)

\* F(x) with x evaluated once, whatever the number of uses F makes of it.
Bind(x, F(_)) == CHOOSE r \in { F(v) : v \in {x} } : TRUE

Abs(n) == IF n < 0 THEN -n ELSE n

Sgn(n) == IF n < 0 THEN -1 ELSE 1

\* <<q, r>> with a * b = q * c + r and 0 <= r < c, for naturals a, b and
\* 0 < c < 2^31 / 7, without forming a * b (which overflows 32 bits).  b is
\* taken two bits at a time: h is the result for b div 4, and ar, aq are the
\* remainder and quotient of (b mod 4) * a by c, before reduction.
MulDivStep(h, ar, aq, c) ==
  Bind(<<h, ar, aq, c>>, LAMBDA v :
    << 4 * v[1][1] + v[3] + (4 * v[1][2] + v[2]) \div v[4],
       (4 * v[1][2] + v[2]) % v[4] >>)

RECURSIVE MulDivRem(_, _, _)
MulDivRem(a, b, c) ==
  IF b = 0 THEN <<0, 0>>
  ELSE MulDivStep(MulDivRem(a, b \div 4, c), (b % 4) * (a % c), (b % 4) * (a \div c), c)

\* a * b / c truncated toward zero, for c > 0 (the sign of a binary64 product
\* is the product of the signs; the magnitude does not depend on them).
MulDiv(a, b, c) ==
  Bind(<<a, b, c>>, LAMBDA v :
    Sgn(v[1]) * Sgn(v[2]) * MulDivRem(Abs(v[1]), Abs(v[2]), v[3])[1])

\* The 1e8 scale: 1.0 is ONE8.
ONE8 == 10000 * 10000

RECURSIVE NewtonSqrt(_, _)
NewtonSqrt(n, s) ==
  Bind(<<n, s, (s + MulDiv(n, ONE8, s)) \div 2>>, LAMBDA v :
    IF v[3] >= v[2] THEN v[2] ELSE NewtonSqrt(v[1], v[3]))

\* Math.sqrt on the 1e8 scale: floor(1e8 * sqrt(n / 1e8)), for ONE8 <= n < 3.5e8.
Sqrt(n) == Bind(n, LAMBDA v : NewtonSqrt(v, 2 * v))

(***************************************************************************)
(* JavaScript numbers that may be NaN (the frequency bounds)               *)
(***************************************************************************)

NaN == [nan |-> TRUE, v |-> 0]

Num(n) == [nan |-> FALSE, v |-> n]

\* a - b and a + b on numbers: NaN if either operand is NaN.
NumSub(a, b) == IF a.nan \/ b.nan THEN NaN ELSE Num(a.v - b.v)

NumAdd(a, b) == IF a.nan \/ b.nan THEN NaN ELSE Num(a.v + b.v)

\* ToLength of Array.from({ length: x }): NaN and negatives give 0.
ToLength(x) == IF x.nan \/ x.v <= 0 THEN 0 ELSE x.v

(***************************************************************************)
(* generateImpedanceData                                                   *)
(***************************************************************************)

\* const R0 = 1000 (ohm).
R0 == 1000

\* const C0 = 1e-9 (F), in units of 1e-11 F.
C0 == 100

\* Math.PI on the 1e8 scale.
PI8 == 314159265

\* The sign of the fluid term flipped: 1 + fluidLevel * 0.6.
fluidFactorRising(fluidLevel) == 1000 + fluidLevel * 6

\* const fluidFactor = 1 - fluidLevel * 0.6, in thousandths (exact).
fluidFactor(fluidLevel) == 1000 - fluidLevel * 6

\* const resistance = R0 * fluidFactor, in ohm (exact: R0 is 1000).
resistance(fluidLevel) == (R0 * fluidFactor(fluidLevel)) \div 1000

\* The factors of the capacitance exchanged: C0 * (3 + fluidLevel).
capacitanceSwapped(fluidLevel) == (C0 * (300 + fluidLevel)) \div 100

\* const capacitance = C0 * (1 + fluidLevel * 3), in 1e-11 F (exact).
capacitance(fluidLevel) == (C0 * (100 + fluidLevel * 3)) \div 100

\* const omega = 2 * Math.PI * f * 1000, in 1e-3 rad/s.
omega(f) == MulDiv(2 * PI8, f, 100)

\* omega * resistance * capacitance on the 1e8 scale, multiplied left to right.
omegaRC(fluidLevel, f) ==
  MulDiv(MulDiv(omega(f), resistance(fluidLevel), 1000), capacitance(fluidLevel), 1000)

\* const denom = 1 + Math.pow(omega * resistance * capacitance, 2), 1e8 scale.
denom(fluidLevel, f) ==
  Bind(omegaRC(fluidLevel, f), LAMBDA x : ONE8 + MulDiv(x, x, ONE8))

\* const Z = resistance / Math.sqrt(denom), in 1e-6 ohm.
Z(fluidLevel, f) ==
  MulDiv(resistance(fluidLevel) * 1000000, ONE8, Sqrt(denom(fluidLevel, f)))

\* Array.from({ length: maxFreq - minFreq + 1 }, (_, i) => i + minFreq).
frequencies(minFreq, maxFreq) ==
  [i \in 1..ToLength(NumAdd(NumSub(maxFreq, minFreq), Num(1))) |-> (i - 1) + minFreq.v]

\* const impedanceData = frequencies.map((f) => { ...; return Z; }).
impedanceData(fluidLevel, fs) == [i \in 1..Len(fs) |-> Z(fluidLevel, fs[i])]

\* return { frequencies, impedanceData } (range and dual versions).
generateImpedanceData(fluidLevel, minFreq, maxFreq) ==
  [frequencies   |-> frequencies(minFreq, maxFreq),
   impedanceData |-> impedanceData(fluidLevel, frequencies(minFreq, maxFreq))]

\* The manual version's frequencies:
\* Array.from({ length: 100 }, (_, i) => i + 1), 1 to 100 kHz.
frequenciesFixed == [i \in 1..100 |-> i]

(***************************************************************************)
(* Naturals wider than 32 bits: little-endian limb sequences, base 2^20,   *)
(* no leading zero limb (zero is << >>)                                    *)
(***************************************************************************)

BASE == 1024 * 1024

RECURSIVE Pow2(_)
Pow2(s) == IF s = 0 THEN 1 ELSE 2 * Pow2(s - 1)

RECURSIVE BigTrim(_)
BigTrim(a) ==
  Bind(a, LAMBDA v :
    IF v # << >> /\ v[Len(v)] = 0 THEN BigTrim(SubSeq(v, 1, Len(v) - 1)) ELSE v)

RECURSIVE BigMulCarry(_, _, _, _)
BigMulCarry(a, c, i, carry) ==
  Bind(<<a, c, i, carry>>, LAMBDA v :
    IF v[3] > Len(v[1]) THEN (IF v[4] = 0 THEN << >> ELSE <<v[4]>>)
    ELSE Bind(v[1][v[3]] * v[2] + v[4], LAMBDA t :
           <<t % BASE>> \o BigMulCarry(v[1], v[2], v[3] + 1, t \div BASE)))

\* a * c, for 0 <= c <= 1024.
BigMulSmall(a, c) == BigTrim(BigMulCarry(a, c, 1, 0))

RECURSIVE BigDivRem(_, _, _, _)
BigDivRem(a, c, i, rem) ==
  Bind(<<a, c, i, rem>>, LAMBDA v :
    IF v[3] = 0 THEN << << >>, v[4] >>
    ELSE Bind(v[4] * BASE + v[1][v[3]], LAMBDA t :
           Bind(BigDivRem(v[1], v[2], v[3] - 1, t % v[2]), LAMBDA rest :
             << rest[1] \o <<t \div v[2]>>, rest[2] >>)))

\* << a div c, a mod c >>, for 0 < c <= 1024.
BigDivSmall(a, c) ==
  Bind(a, LAMBDA v :
    Bind(BigDivRem(v, c, Len(v), 0), LAMBDA qr : << BigTrim(qr[1]), qr[2] >>))

\* a * 2^s.
RECURSIVE BigShl(_, _)
BigShl(a, s) ==
  Bind(<<a, s>>, LAMBDA v :
    IF v[2] > 10 THEN BigShl(BigMulSmall(v[1], 1024), v[2] - 10)
    ELSE BigMulSmall(v[1], Pow2(v[2])))

RECURSIVE BitLen(_)
BitLen(n) == Bind(n, LAMBDA v : IF v = 0 THEN 0 ELSE 1 + BitLen(v \div 2))

\* The number of bits of a.
BigBits(a) ==
  Bind(a, LAMBDA v : IF v = << >> THEN 0 ELSE 20 * (Len(v) - 1) + BitLen(v[Len(v)]))

RECURSIVE BigCmpFrom(_, _, _)
BigCmpFrom(a, b, i) ==
  Bind(<<a, b, i>>, LAMBDA v :
    IF v[3] = 0 THEN 0
    ELSE IF v[1][v[3]] < v[2][v[3]] THEN -1
    ELSE IF v[1][v[3]] > v[2][v[3]] THEN 1
    ELSE BigCmpFrom(v[1], v[2], v[3] - 1))

\* -1, 0 or 1 as a < b, a = b or a > b.
BigCmp(a, b) ==
  Bind(<<a, b>>, LAMBDA v :
    IF Len(v[1]) < Len(v[2]) THEN -1
    ELSE IF Len(v[1]) > Len(v[2]) THEN 1
    ELSE BigCmpFrom(v[1], v[2], Len(v[1])))

RECURSIVE BigSubBorrow(_, _, _, _)
BigSubBorrow(a, b, i, borrow) ==
  Bind(<<a, b, i, borrow>>, LAMBDA v :
    IF v[3] > Len(v[1]) THEN << >>
    ELSE Bind(v[1][v[3]] - (IF v[3] <= Len(v[2]) THEN v[2][v[3]] ELSE 0) - v[4],
           LAMBDA t : <<(t + BASE) % BASE>>
                        \o BigSubBorrow(v[1], v[2], v[3] + 1, IF t < 0 THEN 1 ELSE 0)))

\* a - b, for a >= b.
BigSub(a, b) == BigTrim(BigSubBorrow(a, b, 1, 0))

RECURSIVE BigIncFrom(_, _)
BigIncFrom(a, i) ==
  Bind(<<a, i>>, LAMBDA v :
    IF v[2] > Len(v[1]) THEN v[1] \o <<1>>
    ELSE IF v[1][v[2]] + 1 < BASE THEN [v[1] EXCEPT ![v[2]] = v[1][v[2]] + 1]
    ELSE BigIncFrom([v[1] EXCEPT ![v[2]] = 0], v[2] + 1))

\* a + 1.
BigInc(a) == BigIncFrom(a, 1)

(***************************************************************************)
(* IEEE-754 binary64, round to nearest, ties to even.  A finite double is  *)
(* (-1)^neg * m * 2^e with m of exactly 53 bits, or zero (m = << >>).      *)
(* The values met here are zero or of magnitude in [0.01, 100]: no         *)
(* subnormal, infinity or NaN arises.                                      *)
(***************************************************************************)

DblZero == [neg |-> FALSE, m |-> << >>, e |-> 0]

\* The quotient qr[1] and remainder qr[2] of a division by 2^s, rounded to
\* the nearest integer: up when the discarded part is over half, or is half
\* and the quotient is odd (sticky: more was discarded before).
RoundQuotient(qr, s, sticky) ==
  Bind(Pow2(s - 1), LAMBDA half :
    IF qr[2] > half \/ (qr[2] = half /\ (sticky \/ qr[1][1] % 2 = 1))
      THEN BigInc(qr[1])
      ELSE qr[1])

\* The double nearest to (-1)^neg * (n + t) * 2^e, where 0 < t < 1 if sticky
\* and t = 0 otherwise; n has at most 63 bits.
DblRound(neg, n, e, sticky) ==
  Bind(<<neg, n, e, sticky, BigBits(n) - 53>>, LAMBDA v :
    IF v[2] = << >> THEN DblZero
    ELSE IF v[5] <= 0 THEN [neg |-> v[1], m |-> BigShl(v[2], -v[5]), e |-> v[3] + v[5]]
    ELSE Bind(RoundQuotient(BigDivSmall(v[2], Pow2(v[5])), v[5], v[4]), LAMBDA q :
           IF BigBits(q) > 53
             THEN [neg |-> v[1], m |-> BigDivSmall(q, 2)[1], e |-> v[3] + v[5] + 1]
             ELSE [neg |-> v[1], m |-> q, e |-> v[3] + v[5]]))

\* parseFloat(e.target.value) for a slider string of k hundredths ("0.57").
DblParseHundredths(k) ==
  Bind(BigDivSmall(BigShl(BigTrim(<<k>>), 60), 100), LAMBDA qr :
    DblRound(FALSE, qr[1], -60, qr[2] # 0))

\* x * c for a small integer c (exactly representable).
DblMulSmall(x, c) ==
  Bind(x, LAMBDA v : DblRound(v.neg, BigMulSmall(v.m, c), v.e, FALSE))

\* x / c for a small integer c.
DblDivSmall(x, c) ==
  Bind(x, LAMBDA v :
    Bind(BigDivSmall(BigShl(v.m, 6), c), LAMBDA qr :
      DblRound(v.neg, qr[1], v.e - 6, qr[2] # 0)))

\* The difference of the aligned mantissas na, nb, at exponent e0.
DblSubAligned(na, nb, e0) ==
  IF BigCmp(na, nb) >= 0
    THEN DblRound(FALSE, BigSub(na, nb), e0, FALSE)
    ELSE DblRound(TRUE, BigSub(nb, na), e0, FALSE)

\* a - b for a, b >= 0.
DblSub(a, b) ==
  Bind(<<a, b>>, LAMBDA v :
    IF v[2].m = << >> THEN v[1]
    ELSE IF v[1].m = << >> THEN [v[2] EXCEPT !.neg = TRUE]
    ELSE Bind(IF v[1].e < v[2].e THEN v[1].e ELSE v[2].e, LAMBDA e0 :
           Bind(<<BigShl(v[1].m, v[1].e - e0), BigShl(v[2].m, v[2].e - e0)>>,
                LAMBDA n : DblSubAligned(n[1], n[2], e0))))

\* Math.abs(x).
DblAbs(x) == Bind(x, LAMBDA v : [v EXCEPT !.neg = FALSE])

\* x < n for an integer n > 0.
DblLess(x, n) ==
  Bind(x, LAMBDA v :
    IF v.neg \/ v.m = << >> THEN TRUE
    ELSE IF v.e >= 0 THEN BigCmp(BigShl(v.m, v.e), <<n>>) < 0
    ELSE BigCmp(v.m, BigShl(<<n>>, -v.e)) < 0)

(***************************************************************************)
(* Text typed into an <input type="number">: a sequence of characters.     *)
(* The browser hands the handler "" unless the text is a valid number.     *)
(***************************************************************************)

Digit(c) ==
  CASE c = "0" -> 0 [] c = "1" -> 1 [] c = "2" -> 2 [] c = "3" -> 3 [] c = "4" -> 4
    [] c = "5" -> 5 [] c = "6" -> 6 [] c = "7" -> 7 [] c = "8" -> 8 [] c = "9" -> 9
    [] OTHER -> -1

\* The longest run of digits of text from position i: << value, digits read >>.
RECURSIVE Digits(_, _, _, _)
Digits(text, i, acc, n) ==
  IF i > Len(text) \/ Digit(text[i]) < 0 THEN <<acc, n>>
  ELSE Digits(text, i + 1, acc * 10 + Digit(text[i]), n + 1)

Signed(text) == text # << >> /\ text[1] \in {"-", "+"}

\* parseInt(e.target.value): an optional sign, then digits up to the first
\* other character; NaN when no digit is read.
ParseInt(text) ==
  LET d == Digits(text, IF Signed(text) THEN 2 ELSE 1, 0, 0)
  IN  IF d[2] = 0 THEN NaN
      ELSE Num(IF Signed(text) /\ text[1] = "-" THEN -d[1] ELSE d[1])

(***************************************************************************)
(* State: the useState hooks of the three versions, and what the           *)
(* component hands to the outside.                                         *)
(***************************************************************************)
VARIABLES
  fluidLevel,        \* manual, range: hundredths (the slider's decimal string)
  minFreq,           \* range, dual: a number, possibly NaN
  maxFreq,           \* range, dual: a number, possibly NaN
  selectedFreq,      \* range: an integer
  voltageAffected,   \* manual: the four fields' texts
  currentAffected,
  voltageUnaffected,
  currentUnaffected,
  manualLDex,        \* manual: null or the toFixed(2) string
  manualMessage,     \* manual
  lastClick,         \* manual, history: how the latest Calculate click ended
  darkMode,          \* dual
  leftFluid,         \* dual: hundredths
  rightFluid,        \* dual: hundredths
  pngPending,        \* dual: exportToPNG calls awaiting html2canvas
  saved              \* dual: the saveAs call made by the event just handled

vars == << fluidLevel, minFreq, maxFreq, selectedFreq,
           voltageAffected, currentAffected, voltageUnaffected, currentUnaffected,
           manualLDex, manualMessage, lastClick,
           darkMode, leftFluid, rightFluid, pngPending, saved >>

manualVars == << voltageAffected, currentAffected, voltageUnaffected,
                 currentUnaffected, manualLDex, manualMessage, lastClick >>

dualVars == << darkMode, leftFluid, rightFluid, pngPending, saved >>

\* manualLDex before any accepted click: useState(null).
Null == [kind |-> "null", nan |-> FALSE, neg |-> FALSE, hundredths |-> 0]

\* What the event just handled gave to saveAs: nothing, the chart image, or
\* the CSV text as its header line and its data rows.
NoSave == [name |-> "none", header |-> "", rows |-> << >>]

(***************************************************************************)
(* Inputs                                                                  *)
(***************************************************************************)

\* Positions a drag of a fluid slider lands on: FluidStops equal parts of
\* the slider's 0 .. 1.
FluidStops == 1

DragStops == { (i * 100) \div FluidStops : i \in 0..FluidStops }

\* Positions the keyboard moves a fluid slider to from k: one step of 0.01
\* either way (arrow keys), the minimum (Home), the maximum (End).
StepMoves(k) == {k - 1, k + 1, 0, 100} \cap (0..100)

\* Texts typed into the Min Frequency and Max Frequency inputs.
TypedFreqs ==
  { << >>, <<"-", "1">>, <<"1">>, <<"6", "0">>, <<"1", "0", "0">>, <<"1", "0", "1">> }

\* A numeric attribute of an <input type="range">: React writes NaN as the
\* text "NaN", which the browser ignores in favour of the default.
RangeAttr(x, default) == IF x.nan THEN default ELSE x.v

\* Values the selected-frequency slider (min={minFreq} max={maxFreq}, step 1)
\* can report: its ends and its middle.
SelectableFreqs ==
  LET lo  == RangeAttr(minFreq, 0)
      hi0 == RangeAttr(maxFreq, 100)
      hi  == IF hi0 < lo THEN lo ELSE hi0
  IN  {lo, (lo + hi) \div 2, hi}

(***************************************************************************)
(* range version (src/unnamed/part_000)                                    *)
(***************************************************************************)

\* Array.prototype.indexOf: the first 0-based index of x in arr, or -1.
IndexOf(arr, x) ==
  Bind({ i \in 1..Len(arr) : arr[i] = x }, LAMBDA hits :
    IF hits = {} THEN -1
    ELSE (CHOOSE i \in hits : \A j \in hits : i <= j) - 1)

\* const { frequencies, impedanceData } = generateImpedanceData(fluidLevel, minFreq, maxFreq):
\* the two fields of the returned object.
rangeFrequencies == frequencies(minFreq, maxFreq)

rangeImpedanceData == impedanceData(fluidLevel, rangeFrequencies)

\* const selectedIndex = frequencies.indexOf(selectedFreq).
selectedIndex == IndexOf(rangeFrequencies, selectedFreq)

\* An impedance value or the string "N/A", told apart by its JavaScript type.
NotAvailable == [type |-> "string", text |-> "N/A"]

\* const selectedImpedance = selectedIndex !== -1 ? impedanceData[selectedIndex] : "N/A".
selectedImpedance ==
  Bind(selectedIndex, LAMBDA i :
    IF i # -1 THEN [type |-> "number", v |-> rangeImpedanceData[i + 1]]
    ELSE NotAvailable)

\* const fluidPercentage = fluidLevel * 100.
fluidPercentage == DblMulSmall(DblParseHundredths(fluidLevel), 100)

\* const lDexIndex = fluidPercentage / 10.
lDexIndex == DblDivSmall(fluidPercentage, 10)

\* The thresholds applied to the percentage instead of the index.
conclusionOfPercentage ==
  Bind(fluidPercentage, LAMBDA x :
    IF DblLess(x, 3) THEN "Normal"
    ELSE IF DblLess(x, 7) THEN "Elevated"
    ELSE "Abnormal")

\* const conclusion = lDexIndex < 3 ? "Normal" : lDexIndex < 7 ? "Elevated" : "Abnormal".
conclusion ==
  Bind(lDexIndex, LAMBDA x :
    IF DblLess(x, 3) THEN "Normal"
    ELSE IF DblLess(x, 7) THEN "Elevated"
    ELSE "Abnormal")

\* x.toFixed exists on numbers only; on a string the call throws a TypeError.
HasToFixed(x) == x.type = "number"

\* The render of the current state returns: the toFixed calls of its JSX are
\* on fluidPercentage, lDexIndex (numbers) and on selectedImpedance.  A render
\* that throws unmounts the component, and no handler runs any more.
RangeRenderOk == HasToFixed(selectedImpedance)

RangeInit ==
  /\ fluidLevel = 20
  /\ minFreq = Num(1)
  /\ maxFreq = Num(100)
  /\ selectedFreq = 50
  /\ voltageAffected = << >> /\ currentAffected = << >>
  /\ voltageUnaffected = << >> /\ currentUnaffected = << >>
  /\ manualLDex = Null /\ manualMessage = "" /\ lastClick = "none"
  /\ darkMode = FALSE /\ leftFluid = 20 /\ rightFluid = 20
  /\ pngPending = 0 /\ saved = NoSave

\* onChange={(e) => setFluidLevel(parseFloat(e.target.value))}, while mounted.
SetFluidLevel ==
  /\ RangeRenderOk
  /\ \E k \in StepMoves(fluidLevel) : fluidLevel' = k
  /\ UNCHANGED << minFreq, maxFreq, selectedFreq, manualVars, dualVars >>

\* onChange={(e) => setMinFreq(parseInt(e.target.value))}, while mounted.
SetMinFreq ==
  /\ RangeRenderOk
  /\ \E text \in TypedFreqs : minFreq' = ParseInt(text)
  /\ UNCHANGED << fluidLevel, maxFreq, selectedFreq, manualVars, dualVars >>

\* onChange={(e) => setMaxFreq(parseInt(e.target.value))}, while mounted.
SetMaxFreq ==
  /\ RangeRenderOk
  /\ \E text \in TypedFreqs : maxFreq' = ParseInt(text)
  /\ UNCHANGED << fluidLevel, minFreq, selectedFreq, manualVars, dualVars >>

\* onChange={(e) => setSelectedFreq(parseInt(e.target.value))}, while mounted.
SetSelectedFreq ==
  /\ RangeRenderOk
  /\ \E v \in SelectableFreqs : selectedFreq' = v
  /\ UNCHANGED << fluidLevel, minFreq, maxFreq, manualVars, dualVars >>

RangeNext ==
  \/ SetFluidLevel
  \/ SetMinFreq
  \/ SetMaxFreq
  \/ SetSelectedFreq

SpecRange == RangeInit /\ [][RangeNext]_vars

(***************************************************************************)
(* Properties of the range version, under SpecRange                        *)
(***************************************************************************)

\* C3: for the fluid level of the state, impedanceData is non-increasing
\* along frequencies: each entry is at most the entry before it.
NonIncreasingAlongFrequencies ==
  \A i \in 1..(Len(rangeFrequencies) - 1) :
    rangeImpedanceData[i + 1] <= rangeImpedanceData[i]

\* R0 / sqrt(1 + (2 * pi * f * 1000 * R0 * C0)^2), in 1e-6 ohm.
ImpedanceAtRest(f) ==
  Bind(MulDiv(MulDiv(MulDiv(2 * PI8, f, 100), R0, 1000), C0, 1000), LAMBDA x :
    MulDiv(R0 * 1000000, ONE8, Sqrt(ONE8 + MulDiv(x, x, ONE8))))

\* C4: at fluid level 0 the resistance is R0, the capacitance is C0, and the
\* impedance at every frequency f of the render is
\* R0 / sqrt(1 + (2 * pi * f * 1000 * R0 * C0)^2).
RestValuesAtFluidZero ==
  fluidLevel = 0 =>
    /\ resistance(fluidLevel) = R0
    /\ capacitance(fluidLevel) = C0
    /\ \A i \in 1..Len(rangeFrequencies) :
         rangeImpedanceData[i] = ImpedanceAtRest(rangeFrequencies[i])

\* The slider is at 0 and the render has a full series to evaluate.
FluidZeroRendered ==
  fluidLevel = 0 /\ Len(rangeFrequencies) >= 100

\* C5: every render evaluates at most 100 frequency points, and the state
\* keeps 1 <= minFreq < maxFreq <= 100.
AtMost100Points ==
  /\ Len(rangeFrequencies) <= 100
  /\ ~minFreq.nan /\ ~maxFreq.nan
  /\ 1 <= minFreq.v /\ minFreq.v < maxFreq.v /\ maxFreq.v <= 100

\* C8: at every slider position of k hundredths the index is k / 10 (its
\* integer part is that of k / 10) and the conclusion is "Normal" iff
\* k / 10 < 3, "Elevated" iff 3 <= k / 10 < 7, "Abnormal" iff k / 10 >= 7,
\* whatever minFreq, maxFreq and selectedFreq are.
ConclusionByFluidLevel ==
  /\ Bind(lDexIndex, LAMBDA x :
       /\ DblLess(x, fluidLevel \div 10 + 1)
       /\ fluidLevel \div 10 > 0 => ~DblLess(x, fluidLevel \div 10))
  /\ Bind(conclusion, LAMBDA c :
       /\ c \in {"Normal", "Elevated", "Abnormal"}
       /\ c = "Normal" <=> fluidLevel < 30
       /\ c = "Elevated" <=> (30 <= fluidLevel /\ fluidLevel < 70)
       /\ c = "Abnormal" <=> fluidLevel >= 70)

\* The index sits on a threshold after the three frequency controls were
\* all changed.
ThresholdWithFrequenciesChanged ==
  /\ fluidLevel \in {30, 70}
  /\ minFreq # Num(1) /\ maxFreq # Num(100) /\ selectedFreq # 50

\* C9: the value toFixed(2) is called on for the "Impedance at" line is a
\* number in every state.
ToFixedOnNumber == HasToFixed(selectedImpedance)

(***************************************************************************)
(* manual version (src/src/bioimpedancesimulation.jsx)                     *)
(*                                                                         *)
(* The calculator's numbers are NaN or decimal fixed point in millionths   *)
(* (1.0 is MICRO), every operation truncated toward zero; magnitudes stay  *)
(* below 2147.  The field texts are unsigned, so every quotient taken is   *)
(* positive.                                                               *)
(***************************************************************************)

MICRO == 1000 * 1000

RECURSIVE Pow10(_)
Pow10(n) == IF n = 0 THEN 1 ELSE 10 * Pow10(n - 1)

\* The digits after the "." at position p of text, in millionths (at most
\* six digits are read): << value, digits read >>.
Fraction(text, p) ==
  IF p <= Len(text) /\ text[p] = "."
    THEN Bind(Digits(SubSeq(text, 1, IF Len(text) < p + 6 THEN Len(text) ELSE p + 6),
                     p + 1, 0, 0),
              LAMBDA d : << d[1] * Pow10(6 - d[2]), d[2] >>)
    ELSE <<0, 0>>

\* parseFloat(text): an optional sign, digits, an optional fraction; NaN when
\* no digit is read.  (No exponent part is typed here.)
ParseFloat(text) ==
  Bind(IF Signed(text) THEN 2 ELSE 1, LAMBDA s :
    Bind(Digits(text, s, 0, 0), LAMBDA d :
      Bind(Fraction(text, s + d[2]), LAMBDA fr :
        IF d[2] = 0 /\ fr[2] = 0 THEN NaN
        ELSE Num((IF Signed(text) /\ text[1] = "-" THEN -1 ELSE 1)
                 * (d[1] * MICRO + fr[1])))))

\* !x on a number: true for NaN and for 0.
Falsy(x) == x.nan \/ x.v = 0

\* a / b for numbers a and b # 0.
NumDiv(a, b) ==
  IF a.nan \/ b.nan THEN NaN
  ELSE Num(Sgn(b.v) * MulDiv(a.v, MICRO, Abs(b.v)))

\* The decade of x > 0: << d, m >> with x = m * 10^d and MICRO <= m < 10 * MICRO.
RECURSIVE Decade(_, _)
Decade(x, d) ==
  IF x >= 10 * MICRO THEN Decade(x \div 10, d + 1)
  ELSE IF x < MICRO THEN Decade(x * 10, d - 1)
  ELSE <<d, x>>

\* Bits of the binary fraction of log10(m), for MICRO <= m < 10 * MICRO: the
\* mantissa is squared n times, a 1 bit for every square that reaches 10.
LogBits == 20

RECURSIVE LogFraction(_, _, _)
LogFraction(m, n, acc) ==
  IF n = 0 THEN acc
  ELSE Bind(MulDiv(m, m, MICRO), LAMBDA sq :
         IF sq >= 10 * MICRO
           THEN LogFraction(sq \div 10, n - 1, 2 * acc + 1)
           ELSE LogFraction(sq, n - 1, 2 * acc))

\* Math.log10(x): NaN for NaN and for x < 0 (x = 0 does not arise).
Log10(x) ==
  IF x.nan \/ x.v <= 0 THEN NaN
  ELSE Bind(Decade(x.v, 0), LAMBDA dm :
         Num(dm[1] * MICRO + MulDiv(LogFraction(dm[2], LogBits, 0), MICRO, Pow2(LogBits))))

\* x * 10.
NumTimes10(x) == IF x.nan THEN NaN ELSE Num(x.v * 10)

\* x.toFixed(2): the string "NaN", or a sign and the magnitude rounded to
\* hundredths, halves up.
ToFixed2(x) ==
  IF x.nan THEN [kind |-> "string", nan |-> TRUE, neg |-> FALSE, hundredths |-> 0]
  ELSE [kind |-> "string", nan |-> FALSE, neg |-> x.v < 0,
        hundredths |-> (Abs(x.v) + 5000) \div 10000]

\* Math.abs(x) < n: false for NaN.
AbsLess(x, n) == ~x.nan /\ Abs(x.v) < n * MICRO

PleaseFill == "Please fill all voltage and current values."

\* let message = ...: the message for lDexVal.
MessageFor(lDexVal) ==
  IF AbsLess(lDexVal, 3) THEN "Normal fluid levels."
  ELSE IF AbsLess(lDexVal, 10) THEN "Mild to moderate fluid buildup."
  ELSE "Significant fluid buildup. Please consult a specialist."

\* const lDexVal = Math.log10(zA / zU) * 10, with zA = vA / iA, zU = vU / iU.
LDexVal(vA, iA, vU, iU) ==
  NumTimes10(Log10(NumDiv(NumDiv(vA, iA), NumDiv(vU, iU))))

\* {manualLDex && (...)}: null is falsy, a toFixed string (never empty) truthy.
PanelVisible == manualLDex.kind = "string"

\* const { frequencies, impedanceData } = generateImpedanceData(fluidLevel).
manualImpedanceData == impedanceData(fluidLevel, frequenciesFixed)

\* Texts the four number inputs hand to their handlers.
FieldTexts == { << >>, <<"0">>, <<"2">>, <<"7">> }

ManualInit ==
  /\ fluidLevel = 20
  /\ voltageAffected = << >> /\ currentAffected = << >>
  /\ voltageUnaffected = << >> /\ currentUnaffected = << >>
  /\ manualLDex = Null /\ manualMessage = "" /\ lastClick = "none"
  /\ minFreq = Num(1) /\ maxFreq = Num(100) /\ selectedFreq = 50
  /\ darkMode = FALSE /\ leftFluid = 20 /\ rightFluid = 20
  /\ pngPending = 0 /\ saved = NoSave

\* onChange={(e) => setFluidLevel(parseFloat(e.target.value))}.
ManualSetFluidLevel(k) ==
  /\ fluidLevel' = k
  /\ UNCHANGED << minFreq, maxFreq, selectedFreq, manualVars, dualVars >>

\* onChange={(e) => setVoltageAffected(e.target.value)}.
SetVoltageAffected(text) ==
  /\ voltageAffected' = text
  /\ UNCHANGED << fluidLevel, minFreq, maxFreq, selectedFreq, currentAffected,
                  voltageUnaffected, currentUnaffected, manualLDex, manualMessage,
                  lastClick, dualVars >>

\* onChange={(e) => setCurrentAffected(e.target.value)}.
SetCurrentAffected(text) ==
  /\ currentAffected' = text
  /\ UNCHANGED << fluidLevel, minFreq, maxFreq, selectedFreq, voltageAffected,
                  voltageUnaffected, currentUnaffected, manualLDex, manualMessage,
                  lastClick, dualVars >>

\* onChange={(e) => setVoltageUnaffected(e.target.value)}.
SetVoltageUnaffected(text) ==
  /\ voltageUnaffected' = text
  /\ UNCHANGED << fluidLevel, minFreq, maxFreq, selectedFreq, voltageAffected,
                  currentAffected, currentUnaffected, manualLDex, manualMessage,
                  lastClick, dualVars >>

\* onChange={(e) => setCurrentUnaffected(e.target.value)}.
SetCurrentUnaffected(text) ==
  /\ currentUnaffected' = text
  /\ UNCHANGED << fluidLevel, minFreq, maxFreq, selectedFreq, voltageAffected,
                  currentAffected, voltageUnaffected, manualLDex, manualMessage,
                  lastClick, dualVars >>

\* onClick={calculateManualLDex}.
calculateManualLDex ==
  /\ \E p \in { << ParseFloat(voltageAffected), ParseFloat(currentAffected),
                   ParseFloat(voltageUnaffected), ParseFloat(currentUnaffected) >> } :
       IF Falsy(p[1]) \/ Falsy(p[2]) \/ Falsy(p[3]) \/ Falsy(p[4])
         THEN /\ manualMessage' = PleaseFill
              /\ lastClick' = "rejected"
              /\ UNCHANGED manualLDex
         ELSE \E lDexVal \in { LDexVal(p[1], p[2], p[3], p[4]) } :
                /\ manualLDex' = ToFixed2(lDexVal)
                /\ manualMessage' = MessageFor(lDexVal)
                /\ lastClick' = "accepted"
  /\ UNCHANGED << fluidLevel, minFreq, maxFreq, selectedFreq, voltageAffected,
                  currentAffected, voltageUnaffected, currentUnaffected, dualVars >>

ManualNext ==
  \/ \E k \in DragStops : ManualSetFluidLevel(k)
  \/ \E text \in FieldTexts : SetVoltageAffected(text)
  \/ \E text \in FieldTexts : SetCurrentAffected(text)
  \/ \E text \in FieldTexts : SetVoltageUnaffected(text)
  \/ \E text \in FieldTexts : SetCurrentUnaffected(text)
  \/ calculateManualLDex

SpecManual == ManualInit /\ [][ManualNext]_vars

\* The slider alone, over every position the keyboard reaches.
ManualSliderNext == \E k \in StepMoves(fluidLevel) : ManualSetFluidLevel(k)

SpecManualSlider == ManualInit /\ [][ManualSliderNext]_vars

(***************************************************************************)
(* Properties of the manual version                                        *)
(***************************************************************************)

\* C1: after a click that found a field missing or non-numeric, the message
\* it produced is displayed, whatever clicks came before (SpecManual).
RejectMessageShown ==
  lastClick = "rejected" => (manualMessage = PleaseFill /\ PanelVisible)

\* C2: at every frequency of the chart (1..100 kHz) the impedance at a slider
\* position is below the impedance at the position one step lower; as every
\* position is reached, a higher fluid level gives a lower impedance than
\* every lower one (SpecManualSlider).
FluidLowersImpedance ==
  fluidLevel > 0 =>
    \A i \in 1..Len(frequenciesFixed) :
      manualImpedanceData[i] < impedanceData(fluidLevel - 1, frequenciesFixed)[i]

\* The slider has been taken to its top position, the last of the steps.
FluidAtTop == fluidLevel = 100

\* C10: whenever the panel is visible, the index it shows was produced by the
\* latest click, the one that produced the message (SpecManual).
PanelFromLatestClick == PanelVisible => lastClick = "accepted"

(***************************************************************************)
(* dual version (src/unnamed/part_001)                                     *)
(***************************************************************************)

\* const left = generateImpedanceData(leftFluid, minFreq, maxFreq).
left == generateImpedanceData(leftFluid, minFreq, maxFreq)

\* const right = generateImpedanceData(rightFluid, minFreq, maxFreq).
right == generateImpedanceData(rightFluid, minFreq, maxFreq)

\* const lDexLeft = (leftFluid * 100) / 10.
lDexLeft == DblDivSmall(DblMulSmall(DblParseHundredths(leftFluid), 100), 10)

\* const lDexRight = (rightFluid * 100) / 10.
lDexRight == DblDivSmall(DblMulSmall(DblParseHundredths(rightFluid), 100), 10)

\* const lDexDiff = Math.abs(lDexLeft - lDexRight).
lDexDiff == DblAbs(DblSub(lDexLeft, lDexRight))

\* const conclusion = lDexDiff < 2 ? "Normal" : lDexDiff < 4 ? "Slight Asymmetry"
\*                                                          : "Significant Asymmetry".
dualConclusion ==
  Bind(lDexDiff, LAMBDA d :
    IF DblLess(d, 2) THEN "Normal"
    ELSE IF DblLess(d, 4) THEN "Slight Asymmetry"
    ELSE "Significant Asymmetry")

\* arr[i] in a template literal: the element, or undefined past the end.
Undefined == [defined |-> FALSE, v |-> 0]

Defined(x) == [defined |-> TRUE, v |-> x]

ArrayAt(arr, i) == IF i \in 1..Len(arr) THEN Defined(arr[i]) ELSE Undefined

CsvHeader == "Frequency,Left Impedance,Right Impedance"

\* A data row that writes the left impedance in both columns.
CsvRowsLeftTwice(l, r) ==
  [i \in 1..Len(l.frequencies) |->
    [f     |-> l.frequencies[i],
     left  |-> ArrayAt(l.impedanceData, i),
     right |-> ArrayAt(l.impedanceData, i)]]

\* left.frequencies.forEach((f, i) => rows.push(`${f},${left.impedanceData[i]},
\* ${right.impedanceData[i]}`)): the data rows, each as its three fields.
CsvRows(l, r) ==
  [i \in 1..Len(l.frequencies) |->
    [f     |-> l.frequencies[i],
     left  |-> ArrayAt(l.impedanceData, i),
     right |-> ArrayAt(r.impedanceData, i)]]

\* Texts typed into the dual version's Min Frequency and Max Frequency inputs.
DualTypedFreqs == { << >>, <<"4">>, <<"9", "8">> }

\* exportToPNG calls that may wait for html2canvas at the same time.
MaxPending == 1

DualInit ==
  /\ darkMode = FALSE /\ leftFluid = 20 /\ rightFluid = 20
  /\ minFreq = Num(1) /\ maxFreq = Num(100)
  /\ pngPending = 0 /\ saved = NoSave
  /\ fluidLevel = 20 /\ selectedFreq = 50
  /\ voltageAffected = << >> /\ currentAffected = << >>
  /\ voltageUnaffected = << >> /\ currentUnaffected = << >>
  /\ manualLDex = Null /\ manualMessage = "" /\ lastClick = "none"

\* onClick={() => setDarkMode(!darkMode)}.
SetDarkMode ==
  /\ darkMode' = ~darkMode
  /\ saved' = NoSave
  /\ UNCHANGED << fluidLevel, minFreq, maxFreq, selectedFreq, manualVars,
                  leftFluid, rightFluid, pngPending >>

\* Left Limb slider: onChange={(e) => setFluid(parseFloat(e.target.value))}.
SetLeftFluid(k) ==
  /\ leftFluid' = k
  /\ saved' = NoSave
  /\ UNCHANGED << fluidLevel, minFreq, maxFreq, selectedFreq, manualVars,
                  darkMode, rightFluid, pngPending >>

\* Right Limb slider: onChange={(e) => setFluid(parseFloat(e.target.value))}.
SetRightFluid(k) ==
  /\ rightFluid' = k
  /\ saved' = NoSave
  /\ UNCHANGED << fluidLevel, minFreq, maxFreq, selectedFreq, manualVars,
                  darkMode, leftFluid, pngPending >>

\* onChange={(e) => setMinFreq(parseInt(e.target.value))}.
DualSetMinFreq(text) ==
  /\ minFreq' = ParseInt(text)
  /\ saved' = NoSave
  /\ UNCHANGED << fluidLevel, maxFreq, selectedFreq, manualVars,
                  darkMode, leftFluid, rightFluid, pngPending >>

\* onChange={(e) => setMaxFreq(parseInt(e.target.value))}.
DualSetMaxFreq(text) ==
  /\ maxFreq' = ParseInt(text)
  /\ saved' = NoSave
  /\ UNCHANGED << fluidLevel, minFreq, selectedFreq, manualVars,
                  darkMode, leftFluid, rightFluid, pngPending >>

\* onClick={exportToPNG}, up to the await: html2canvas starts on the chart.
exportToPNG ==
  /\ pngPending < MaxPending
  /\ pngPending' = pngPending + 1
  /\ saved' = NoSave
  /\ UNCHANGED << fluidLevel, minFreq, maxFreq, selectedFreq, manualVars,
                  darkMode, leftFluid, rightFluid >>

\* exportToPNG after the await: canvas.toBlob((blob) => saveAs(blob, "impedance_chart.png")).
exportToPNGResumed ==
  /\ pngPending > 0
  /\ pngPending' = pngPending - 1
  /\ saved' = [name |-> "impedance_chart.png", header |-> "", rows |-> << >>]
  /\ UNCHANGED << fluidLevel, minFreq, maxFreq, selectedFreq, manualVars,
                  darkMode, leftFluid, rightFluid >>

\* onClick={exportToCSV}: the header, one row per entry of left.frequencies,
\* saveAs(blob, "impedance_data.csv").
exportToCSV ==
  /\ \E l \in {left} : \E r \in {right} :
       saved' = [name |-> "impedance_data.csv", header |-> CsvHeader, rows |-> CsvRows(l, r)]
  /\ UNCHANGED << fluidLevel, minFreq, maxFreq, selectedFreq, manualVars,
                  darkMode, leftFluid, rightFluid, pngPending >>

DualNext ==
  \/ SetDarkMode
  \/ \E k \in DragStops : SetLeftFluid(k)
  \/ \E k \in DragStops : SetRightFluid(k)
  \/ \E text \in DualTypedFreqs : DualSetMinFreq(text)
  \/ \E text \in DualTypedFreqs : DualSetMaxFreq(text)
  \/ exportToPNG
  \/ exportToPNGResumed
  \/ exportToCSV

SpecDual == DualInit /\ [][DualNext]_vars

\* The two sliders alone, over every position the keyboard reaches.
DualSlidersNext ==
  \/ \E k \in StepMoves(leftFluid) : SetLeftFluid(k)
  \/ \E k \in StepMoves(rightFluid) : SetRightFluid(k)

SpecDualSliders == DualInit /\ [][DualSlidersNext]_vars

(***************************************************************************)
(* Properties of the dual version                                          *)
(***************************************************************************)

\* The integer frequencies in [minFreq, maxFreq], ascending.
FreqsInRange ==
  IF minFreq.nan \/ maxFreq.nan THEN << >>
  ELSE [i \in 1..(IF maxFreq.v < minFreq.v THEN 0 ELSE maxFreq.v - minFreq.v + 1) |->
         minFreq.v + i - 1]

\* C6: the CSV handed to saveAs is the header row followed by one data row
\* per integer frequency in [minFreq, maxFreq], ascending, and each row holds
\* the impedance computed at its frequency from leftFluid and the impedance
\* computed at its frequency from rightFluid, both defined (SpecDual).
CsvMatchesSeries ==
  saved.name = "impedance_data.csv" =>
    /\ saved.header = CsvHeader
    /\ Len(saved.rows) = Len(FreqsInRange)
    /\ \A i \in 1..Len(saved.rows) :
         /\ saved.rows[i].f = FreqsInRange[i]
         /\ saved.rows[i].left = Defined(Z(leftFluid, FreqsInRange[i]))
         /\ saved.rows[i].right = Defined(Z(rightFluid, FreqsInRange[i]))

\* A CSV of a narrowed range was exported with the two limbs at different
\* fluid levels.
CsvOfDifferentLimbs ==
  /\ saved.name = "impedance_data.csv"
  /\ leftFluid # rightFluid
  /\ minFreq = Num(4) /\ maxFreq = Num(98)
  /\ Len(saved.rows) = 95

\* |leftFluid - rightFluid| in hundredths: ten times the difference of the
\* two L-Dex indices (fluid * 10).
IndexDifferenceTenths == Abs(leftFluid - rightFluid)

\* C7: the conclusion is "Normal" when the difference of the two indices is
\* < 2, "Slight Asymmetry" when it is >= 2 and < 4, "Significant Asymmetry"
\* when it is >= 4 (SpecDualSliders).
AsymmetryByDifference ==
  dualConclusion =
    IF IndexDifferenceTenths < 20 THEN "Normal"
    ELSE IF IndexDifferenceTenths < 40 THEN "Slight Asymmetry"
    ELSE "Significant Asymmetry"

=============================================================================
